---- MODULE Spec2Model ----
(***************************************************************************)
(* Attendance-event evaluation engine of the QR attendance application:    *)
(* token verification, schedule window, subject attendance records, the    *)
(* four-punch gate log, parent notifications and the school settings.      *)
(*                                                                         *)
(* Time is counted in ticks of half a second since Monday 00:00 of day 0,  *)
(* one time zone throughout.  The database runs in autocommit mode: every  *)
(* create/save is durable as soon as it returns.                           *)
(***************************************************************************)
EXTENDS Integers, Sequences, FiniteSets, TLC

VARIABLES
    now,                  \* the wall clock, in ticks
    attendance_records,   \* table attendance_records (AttendanceRecord rows)
    daily_attendance,     \* table of DailyAttendance rows
    parent_notifications, \* table parent_notifications, in insertion order
    school_settings,      \* table of SchoolSettings: empty, or the row with id 1
    tokens,               \* signed QR payloads handed out by digital_id
    requests,             \* in-flight verify_scan requests (concurrent specification)
    response,             \* the response of the last finished request
    call,                 \* arguments and result of a direct call of a helper
    ops,                  \* number of requests handled so far
    users,                \* table users (User rows)
    student_profiles      \* table student_profiles (StudentProfile rows)

vars == <<now, attendance_records, daily_attendance,
          parent_notifications, school_settings, tokens, requests, response,
          call, ops, users, student_profiles>>

\* ----------------------------------------------------------------- bounds

MaxOps == 3
NumProcs == 2
MaxTokens == 2

\* ------------------------------------------------------------------- time

None == "None"
\* A time field that is NULL
NoTime == 0 - 1
\* A foreign key to an attendance record that is NULL
NoRecord == 0 - 1
\* tolerance_minutes=None
NoTolerance == 0 - 1
\* No helper called yet
NoCall ==
    [subject |-> [days_of_week |-> {}, start_time |-> 0, end_time |-> 0],
     current_time |-> 0, tolerance_minutes |-> NoTolerance,
     done |-> FALSE, result |-> [ok |-> FALSE, reason |-> None]]

HM(h, m) == ((h * 60) + m) * 120
DayTicks == HM(24, 0)
Date(t) == t \div DayTicks
Tod(t) == t % DayTicks
Hour(tod) == tod \div HM(1, 0)
Minute(tod) == (tod \div HM(0, 1)) % 60

day_mapping == <<"MON", "TUE", "WED", "THU", "FRI", "SAT", "SUN">>
Weekday(t) == day_mapping[(Date(t) % 7) + 1]

\* Monday and Tuesday of one week
Days == {0, 1}
Instants(tods) == {(d * DayTicks) + x : d \in Days, x \in tods}

\* ----------------------------------------------------------------- roster

Students == {"s1", "s2"}
UuidOf(s) == IF s = "s1" THEN "u1" ELSE "u2"
Uuids == {UuidOf(s) : s \in Students}
StudentByUuid(u) == IF u \in Uuids THEN CHOOSE s \in Students : UuidOf(s) = u ELSE None

Teachers == {"t1", "t2"}

\* TeacherProfile.advisory_grade of the two teachers
advisory_grade(teacher) == IF teacher = "t1" THEN 10 ELSE 11

\* The accounts of the roster: a User per teacher and per student
RosterUsers ==
    {[username |-> t, role |-> "TEACHER"] : t \in Teachers}
    \cup {[username |-> s, role |-> "STUDENT"] : s \in Students}

\* A StudentProfile row; the LRN is student_id, an empty strand is ""
NewProfile(user, student_id, grade_level, strand) ==
    [user |-> user, student_id |-> student_id, grade_level |-> grade_level,
     strand |-> strand]

\* The profiles of the roster, LRN equal to the user name
RosterProfiles == {NewProfile(s, s, 10, "") : s \in Students}

Subjects ==
    [subj1 |-> [teacher |-> "t1", days_of_week |-> {"MON", "WED", "FRI"},
                start_time |-> HM(8, 0), end_time |-> HM(9, 0),
                students |-> {"s1", "s2"}],
     subj2 |-> [teacher |-> "t2", days_of_week |-> {"MON", "TUE"},
                start_time |-> HM(8, 0), end_time |-> HM(9, 0),
                students |-> {"s1"}]]
SubjectIds == DOMAIN Subjects

\* --------------------------------------------------------- school settings

default_absence_alert_threshold == 3
default_scan_tolerance_minutes == 15

DefaultSettings ==
    [absence_alert_threshold |-> default_absence_alert_threshold,
     enable_auto_sms |-> TRUE,
     scan_tolerance_minutes |-> default_scan_tolerance_minutes]

\* Variant: get_settings writes the default row over the stored one.
settings_table_reset(table) == {DefaultSettings}

\* SchoolSettings.get_settings: get_or_create(id=1), the table afterwards
settings_table(table) == IF Cardinality(table) = 0 THEN {DefaultSettings} ELSE table

\* SchoolSettings.get_settings: the row it returns
get_settings(table) == CHOOSE row \in settings_table(table) : TRUE

\* ------------------------------------------------------------- token codec

default_max_age == 300

\* A request body without "uuid" (or with an empty one)
NoToken == [value |-> "", timestamp |-> 0, signature |-> <<>>]

\* The keyed signature over value and timestamp; only the server computes it.
Signature(value, timestamp) == <<"hmac", value, timestamp>>

\* generate_qr_code: TimestampSigner().sign; the timestamp is whole seconds.
sign(value, t) ==
    [value |-> value, timestamp |-> t \div 2,
     signature |-> Signature(value, t \div 2)]

\* Variant: a token is refused already at the age of max_age.
verify_qr_data_strict(signed_data, max_age, t) ==
    IF signed_data.signature # Signature(signed_data.value, signed_data.timestamp)
    THEN None
    ELSE IF t - (signed_data.timestamp * 2) >= max_age * 2
         THEN None
         ELSE signed_data.value

\* verify_qr_data: TimestampSigner().unsign(signed_data, max_age); None on
\* BadSignature and on SignatureExpired (age > max_age).
verify_qr_data(signed_data, max_age, t) ==
    IF signed_data.signature # Signature(signed_data.value, signed_data.timestamp)
    THEN None
    ELSE IF t - (signed_data.timestamp * 2) > max_age * 2
         THEN None
         ELSE signed_data.value

\* --------------------------------------------------- schedule window check

\* datetime.combine(date, t) -+ timedelta(minutes), then .time(): the time of
\* day of the shifted datetime, whatever its date.
ShiftedTime(tod, minutes) == (tod + (minutes * HM(0, 1))) % DayTicks

\* Variant: the bounds of the window are exclusive.
is_within_time_window_exclusive(subject, current_time, tolerance_minutes) ==
    IF Weekday(current_time) \notin subject.days_of_week
    THEN [ok |-> FALSE, reason |-> "NotScheduled"]
    ELSE IF /\ ShiftedTime(subject.start_time, 0 - tolerance_minutes) < Tod(current_time)
            /\ Tod(current_time) < ShiftedTime(subject.end_time, tolerance_minutes)
         THEN [ok |-> TRUE, reason |-> "ScanSuccessful"]
         ELSE [ok |-> FALSE, reason |-> "OutsideClassTime"]

\* is_within_time_window, with the tolerance already resolved
is_within_time_window(subject, current_time, tolerance_minutes) ==
    IF Weekday(current_time) \notin subject.days_of_week
    THEN [ok |-> FALSE, reason |-> "NotScheduled"]
    ELSE IF /\ ShiftedTime(subject.start_time, 0 - tolerance_minutes) <= Tod(current_time)
            /\ Tod(current_time) <= ShiftedTime(subject.end_time, tolerance_minutes)
         THEN [ok |-> TRUE, reason |-> "ScanSuccessful"]
         ELSE [ok |-> FALSE, reason |-> "OutsideClassTime"]

\* ------------------------------------------------ subject attendance table

KeyRows(rows, student, subject, date) ==
    {r \in rows : r.student = student /\ r.subject = subject /\ r.date = date}

\* Variant: the table has no unique constraint.
NoUniqueCheck(rows, student, subject, date) == FALSE

\* unique_together = ["student", "subject", "date"]
UniqueViolation(rows, student, subject, date) ==
    KeyRows(rows, student, subject, date) # {}

NewRecord(id, student, subject, date, status, scan_method) ==
    [id |-> id, student |-> student, subject |-> subject, date |-> date,
     status |-> status, scan_method |-> scan_method]

\* The late threshold of a subject scan, in minutes
late_threshold == 10

\* Variant: a scan after the threshold is recorded as an absence.
ScanStatusAbsentWhenLate(subject, current_time) ==
    LET time_diff == ((Hour(Tod(current_time)) * 60) + Minute(Tod(current_time)))
                     - ((Hour(subject.start_time) * 60) + Minute(subject.start_time))
    IN IF time_diff > late_threshold THEN "ABSENT" ELSE "PRESENT"

\* Variant: a scan exactly at the threshold is already late.
ScanStatusAtThreshold(subject, current_time) ==
    LET time_diff == ((Hour(Tod(current_time)) * 60) + Minute(Tod(current_time)))
                     - ((Hour(subject.start_time) * 60) + Minute(subject.start_time))
    IN IF time_diff >= late_threshold THEN "LATE" ELSE "PRESENT"

\* verify_scan, lines 99-106
ScanStatus(subject, current_time) ==
    LET time_diff == ((Hour(Tod(current_time)) * 60) + Minute(Tod(current_time)))
                     - ((Hour(subject.start_time) * 60) + Minute(subject.start_time))
    IN IF time_diff > late_threshold THEN "LATE" ELSE "PRESENT"

\* ------------------------------------------------------------------ replies

\* What the caller is answered: the handler, the HTTP status, the message,
\* and the student and subject (or gate slot) the message names.
Reply(op, code, kind) ==
    [op |-> op, code |-> code, kind |-> kind, student |-> None, subject |-> None]

ReplyAbout(op, code, kind, student, subject) ==
    [op |-> op, code |-> code, kind |-> kind, student |-> student, subject |-> subject]

\* ------------------------------------------------------- notification rows

\* Auto-increment primary key of a table that never deletes
NextId(rows) == Cardinality(rows) + 1

ABSENT_count(rows, student) ==
    Cardinality({r \in rows : r.student = student /\ r.status = "ABSENT"})

\* Variant: the status is left to the default of the model.
NewNotificationPending(student, attendance_record, message_prefix) ==
    [student |-> student, attendance_record |-> attendance_record,
     message_prefix |-> message_prefix, status |-> "PENDING"]

NewNotification(student, attendance_record, message_prefix) ==
    [student |-> student, attendance_record |-> attendance_record,
     message_prefix |-> message_prefix, status |-> "SENT"]

\* Variant: the alert needs more absences than the threshold.
trigger_parent_notification_above(attendance_record, rows, settings, notifications) ==
    IF attendance_record.status # "ABSENT"
    THEN notifications
    ELSE IF settings.enable_auto_sms
         THEN Append(notifications,
                     NewNotification(attendance_record.student, attendance_record.id, ""))
         ELSE IF ABSENT_count(rows, attendance_record.student)
                     > settings.absence_alert_threshold
              THEN Append(notifications,
                          NewNotification(attendance_record.student,
                                          attendance_record.id, "ALERT"))
              ELSE notifications

\* Variant: a reached threshold is announced even when every absence notifies.
trigger_parent_notification_alert_first(attendance_record, rows, settings, notifications) ==
    IF attendance_record.status # "ABSENT"
    THEN notifications
    ELSE IF ABSENT_count(rows, attendance_record.student)
                >= settings.absence_alert_threshold
         THEN Append(notifications,
                     NewNotification(attendance_record.student,
                                     attendance_record.id, "ALERT"))
         ELSE IF settings.enable_auto_sms
              THEN Append(notifications,
                          NewNotification(attendance_record.student,
                                          attendance_record.id, ""))
              ELSE notifications

\* trigger_parent_notification(attendance_record): the notifications table
\* after the call, given the records table and the settings in force.
trigger_parent_notification(attendance_record, rows, settings, notifications) ==
    IF attendance_record.status # "ABSENT"
    THEN notifications
    ELSE IF settings.enable_auto_sms
         THEN Append(notifications,
                     NewNotification(attendance_record.student, attendance_record.id, ""))
         ELSE IF ABSENT_count(rows, attendance_record.student)
                     >= settings.absence_alert_threshold
              THEN Append(notifications,
                          NewNotification(attendance_record.student,
                                          attendance_record.id, "ALERT"))
              ELSE notifications

\* ------------------------------------------------------ verify_scan, subject

\* Variant: the window is checked before the enrollment.
ScanValidateWindowFirst(uuid_str, subject_id, settings, t) ==
    IF uuid_str = NoToken
    THEN [pass |-> FALSE, reply |-> Reply("scan", 400, "MissingQR"), settings_read |-> FALSE]
    ELSE LET actual_uuid == verify_qr_data(uuid_str, default_max_age, t)
             student == StudentByUuid(actual_uuid)
         IN IF actual_uuid = None
            THEN [pass |-> FALSE, reply |-> Reply("scan", 403, "InvalidToken"),
                  settings_read |-> FALSE]
            ELSE IF student = None
            THEN [pass |-> FALSE, reply |-> Reply("scan", 404, "StudentNotFound"),
                  settings_read |-> FALSE]
            ELSE IF subject_id \notin SubjectIds
            THEN [pass |-> FALSE, reply |-> Reply("scan", 404, "SubjectNotFound"),
                  settings_read |-> FALSE]
            ELSE LET w == is_within_time_window(Subjects[subject_id], t,
                                                settings.scan_tolerance_minutes)
                 IN IF ~w.ok
                    THEN [pass |-> FALSE, reply |-> Reply("scan", 403, w.reason),
                          settings_read |-> TRUE]
                    ELSE IF student \notin Subjects[subject_id].students
                    THEN [pass |-> FALSE, reply |-> Reply("scan", 403, "NotEnrolled"),
                          settings_read |-> TRUE]
                    ELSE [pass |-> TRUE, settings_read |-> TRUE,
                          student |-> student, subject |-> subject_id,
                          status |-> ScanStatus(Subjects[subject_id], t)]

\* The outcome of lines 42-106 of verify_scan for a request with a subject id:
\* a failure reply, or the record the handler goes on to create.
ScanValidate(uuid_str, subject_id, settings, t) ==
    IF uuid_str = NoToken
    THEN [pass |-> FALSE, reply |-> Reply("scan", 400, "MissingQR"), settings_read |-> FALSE]
    ELSE LET actual_uuid == verify_qr_data(uuid_str, default_max_age, t)
             student == StudentByUuid(actual_uuid)
         IN IF actual_uuid = None
            THEN [pass |-> FALSE, reply |-> Reply("scan", 403, "InvalidToken"),
                  settings_read |-> FALSE]
            ELSE IF student = None
            THEN [pass |-> FALSE, reply |-> Reply("scan", 404, "StudentNotFound"),
                  settings_read |-> FALSE]
            ELSE IF subject_id \notin SubjectIds
            THEN [pass |-> FALSE, reply |-> Reply("scan", 404, "SubjectNotFound"),
                  settings_read |-> FALSE]
            ELSE IF student \notin Subjects[subject_id].students
            THEN [pass |-> FALSE, reply |-> Reply("scan", 403, "NotEnrolled"),
                  settings_read |-> FALSE]
            ELSE LET w == is_within_time_window(Subjects[subject_id], t,
                                                settings.scan_tolerance_minutes)
                 IN IF ~w.ok
                    THEN [pass |-> FALSE, reply |-> Reply("scan", 403, w.reason),
                          settings_read |-> TRUE]
                    ELSE [pass |-> TRUE, settings_read |-> TRUE,
                          student |-> student, subject |-> subject_id,
                          status |-> ScanStatus(Subjects[subject_id], t)]

\* Variant: the scan replaces the record of the key instead of inserting.
ScanInsertOverwrite(rows, student, subject, status, t) ==
    [rows |-> {r \in rows : ~(r.student = student /\ r.subject = subject
                                                  /\ r.date = Date(t))}
              \cup {NewRecord(NextId(rows), student, subject, Date(t), status, "QR")},
     reply |-> ReplyAbout("scan", 200, "Recorded", student, subject)]

\* AttendanceRecord.objects.create(...) of lines 109-141: the insert, or the
\* IntegrityError of the unique constraint answered with 409.
ScanInsert(rows, student, subject, status, t) ==
    IF UniqueViolation(rows, student, subject, Date(t))
    THEN [rows |-> rows,
          reply |-> ReplyAbout("scan", 409, "AlreadyMarked", student, subject)]
    ELSE [rows |-> rows \cup {NewRecord(NextId(rows), student, subject, Date(t),
                                        status, "QR")},
          reply |-> ReplyAbout("scan", 200, "Recorded", student, subject)]

\* verify_scan with a subject id, handled without interleaving
VerifyScanSubject(uuid_str, subject_id, t) ==
    /\ ops < MaxOps
    /\ t >= now
    /\ LET v == ScanValidate(uuid_str, subject_id, get_settings(school_settings), t)
       IN /\ school_settings' = IF v.settings_read THEN settings_table(school_settings)
                                ELSE school_settings
          /\ IF v.pass
             THEN LET ins == ScanInsert(attendance_records, v.student, v.subject,
                                        v.status, t)
                  IN /\ attendance_records' = ins.rows
                     /\ response' = ins.reply
             ELSE /\ attendance_records' = attendance_records
                  /\ response' = v.reply
    /\ now' = t
    /\ ops' = ops + 1
    /\ UNCHANGED <<daily_attendance, parent_notifications, tokens, requests, call>>
    /\ UNCHANGED <<users, student_profiles>>

\* ----------------------------------------------------- manual marking

\* Variant: get_or_create, an existing record keeps its status and method.
get_or_create_record(rows, student, subject, date, status) ==
    LET found == KeyRows(rows, student, subject, date)
    IN IF found # {}
       THEN [rows |-> rows, row |-> CHOOSE r \in found : TRUE]
       ELSE LET new == NewRecord(NextId(rows), student, subject, date, status, "MANUAL")
            IN [rows |-> rows \cup {new}, row |-> new]

\* Variant: the lookup of the upsert ignores the date.
update_or_create_any_date(rows, student, subject, date, status) ==
    LET found == {r \in rows : r.student = student /\ r.subject = subject}
    IN IF found # {}
       THEN LET old == CHOOSE r \in found : TRUE
                new == [old EXCEPT !.status = status, !.scan_method = "MANUAL"]
            IN [rows |-> (rows \ {old}) \cup {new}, row |-> new]
       ELSE LET new == NewRecord(NextId(rows), student, subject, date, status, "MANUAL")
            IN [rows |-> rows \cup {new}, row |-> new]

\* update_or_create(student, subject, date, defaults={status, scan_method})
update_or_create(rows, student, subject, date, status) ==
    LET found == KeyRows(rows, student, subject, date)
    IN IF found # {}
       THEN LET old == CHOOSE r \in found : TRUE
                new == [old EXCEPT !.status = status, !.scan_method = "MANUAL"]
            IN [rows |-> (rows \ {old}) \cup {new}, row |-> new]
       ELSE LET new == NewRecord(NextId(rows), student, subject, date, status, "MANUAL")
            IN [rows |-> rows \cup {new}, row |-> new]

\* Variant: a marking outside the schedule window is refused like a scan.
MarkManualWithinWindow(teacher, method, subject_id, student_id, status, t) ==
    /\ ops < MaxOps
    /\ t >= now
    /\ now' = t
    /\ ops' = ops + 1
    /\ UNCHANGED <<daily_attendance, tokens, requests, call>>
    /\ IF method # "POST"
       THEN /\ response' = Reply("manual", 302, "Dashboard")
            /\ UNCHANGED <<attendance_records, parent_notifications, school_settings>>
       ELSE IF subject_id \notin SubjectIds \/ Subjects[subject_id].teacher # teacher
       THEN /\ response' = Reply("manual", 404, "SubjectNotFound")
            /\ UNCHANGED <<attendance_records, parent_notifications, school_settings>>
       ELSE IF student_id \notin Students
       THEN /\ response' = Reply("manual", 404, "StudentNotFound")
            /\ UNCHANGED <<attendance_records, parent_notifications, school_settings>>
       ELSE IF student_id \notin Subjects[subject_id].students
       THEN /\ response' = Reply("manual", 302, "NotEnrolled")
            /\ UNCHANGED <<attendance_records, parent_notifications, school_settings>>
       ELSE IF ~is_within_time_window(Subjects[subject_id], t,
                    get_settings(school_settings).scan_tolerance_minutes).ok
       THEN /\ response' = Reply("manual", 302, "OutsideClassTime")
            /\ UNCHANGED <<attendance_records, parent_notifications, school_settings>>
       ELSE IF status = None
       THEN \* NOT NULL constraint of status: the upsert rolls back, uncaught
            /\ response' = Reply("manual", 500, "IntegrityError")
            /\ UNCHANGED <<attendance_records, parent_notifications, school_settings>>
       ELSE LET up == update_or_create(attendance_records, student_id, subject_id,
                                       Date(t), status)
            IN /\ attendance_records' = up.rows
               /\ response' = Reply("manual", 302, "Marked")
               /\ IF status = "ABSENT"
                  THEN /\ school_settings' = settings_table(school_settings)
                       /\ parent_notifications' =
                              trigger_parent_notification(up.row, up.rows,
                                  get_settings(school_settings), parent_notifications)
                  ELSE UNCHANGED <<parent_notifications, school_settings>>
    /\ UNCHANGED <<users, student_profiles>>

\* mark_manual_attendance(request, subject_id) by a logged-in teacher
MarkManual(teacher, method, subject_id, student_id, status, t) ==
    /\ ops < MaxOps
    /\ t >= now
    /\ now' = t
    /\ ops' = ops + 1
    /\ UNCHANGED <<daily_attendance, tokens, requests, call>>
    /\ IF method # "POST"
       THEN /\ response' = Reply("manual", 302, "Dashboard")
            /\ UNCHANGED <<attendance_records, parent_notifications, school_settings>>
       ELSE IF subject_id \notin SubjectIds \/ Subjects[subject_id].teacher # teacher
       THEN /\ response' = Reply("manual", 404, "SubjectNotFound")
            /\ UNCHANGED <<attendance_records, parent_notifications, school_settings>>
       ELSE IF student_id \notin Students
       THEN /\ response' = Reply("manual", 404, "StudentNotFound")
            /\ UNCHANGED <<attendance_records, parent_notifications, school_settings>>
       ELSE IF student_id \notin Subjects[subject_id].students
       THEN /\ response' = Reply("manual", 302, "NotEnrolled")
            /\ UNCHANGED <<attendance_records, parent_notifications, school_settings>>
       ELSE IF status = None
       THEN \* NOT NULL constraint of status: the upsert rolls back, uncaught
            /\ response' = Reply("manual", 500, "IntegrityError")
            /\ UNCHANGED <<attendance_records, parent_notifications, school_settings>>
       ELSE LET up == update_or_create(attendance_records, student_id, subject_id,
                                       Date(t), status)
            IN /\ attendance_records' = up.rows
               /\ response' = Reply("manual", 302, "Marked")
               /\ IF status = "ABSENT"
                  THEN /\ school_settings' = settings_table(school_settings)
                       /\ parent_notifications' =
                              trigger_parent_notification(up.row, up.rows,
                                  get_settings(school_settings), parent_notifications)
                  ELSE UNCHANGED <<parent_notifications, school_settings>>
    /\ UNCHANGED <<users, student_profiles>>

\* ------------------------------------------------------------ gate punches

seven_am == HM(7, 0)
eight_am == HM(8, 0)
twelve_pm == HM(12, 0)
one_pm == HM(13, 0)
four_pm == HM(16, 0)
five_pm == HM(17, 0)

\* A DailyAttendance row as get_or_create(student, date) creates it: no punch
\* yet, the implicit status and no minutes late.
NewDaily(student, date) ==
    [student |-> student, date |-> date,
     time_in_am |-> NoTime, time_out_am |-> NoTime,
     time_in_pm |-> NoTime, time_out_pm |-> NoTime,
     status |-> "ABSENT", minutes_late |-> 0]

DailyRows(rows, student, date) ==
    {r \in rows : r.student = student /\ r.date = date}

\* DailyAttendance.objects.get_or_create(student=student, date=today)
daily_get_or_create(rows, student, date) ==
    IF DailyRows(rows, student, date) # {}
    THEN [rows |-> rows, row |-> CHOOSE r \in DailyRows(rows, student, date) : TRUE]
    ELSE [rows |-> rows \cup {NewDaily(student, date)}, row |-> NewDaily(student, date)]

\* Variant: 16:00 sharp still counts as the afternoon entry.
BandFourIsEntry(current_time) ==
    IF current_time < twelve_pm THEN "time_in_am"
    ELSE IF twelve_pm <= current_time /\ current_time < one_pm THEN "time_out_am"
    ELSE IF one_pm <= current_time /\ current_time <= four_pm THEN "time_in_pm"
    ELSE IF current_time >= four_pm THEN "time_out_pm"
    ELSE None

\* Variant: 12:00 sharp still counts as morning.
BandShifted(current_time) ==
    IF current_time <= twelve_pm THEN "time_in_am"
    ELSE IF twelve_pm <= current_time /\ current_time < one_pm THEN "time_out_am"
    ELSE IF one_pm <= current_time /\ current_time < four_pm THEN "time_in_pm"
    ELSE IF current_time >= four_pm THEN "time_out_pm"
    ELSE None

\* The branch of the if/elif chain of process_general_attendance a time of
\* day takes (lines 229, 253, 269, 289)
Band(current_time) ==
    IF current_time < twelve_pm THEN "time_in_am"
    ELSE IF twelve_pm <= current_time /\ current_time < one_pm THEN "time_out_am"
    ELSE IF one_pm <= current_time /\ current_time < four_pm THEN "time_in_pm"
    ELSE IF current_time >= four_pm THEN "time_out_pm"
    ELSE None

\* Variant: a filled slot is not recognised.
SlotAlwaysFree(value) == TRUE

\* `not attendance.<slot>`: a datetime.time is always true, only None is false
SlotFree(value) == value = NoTime

\* Variant: 08:00 sharp is already late.
MorningStatusAtOrAfterEight(row, current_time) ==
    IF current_time >= eight_am
    THEN [row EXCEPT !.status = "LATE",
                     !.minutes_late = ((Hour(current_time) * 60) + Minute(current_time))
                                      - (8 * 60)]
    ELSE [row EXCEPT !.status = "PRESENT"]

\* Lines 232-240: the status a morning time-in gives the day
MorningStatus(row, current_time) ==
    IF current_time > eight_am
    THEN [row EXCEPT !.status = "LATE",
                     !.minutes_late = ((Hour(current_time) * 60) + Minute(current_time))
                                      - (8 * 60)]
    ELSE [row EXCEPT !.status = "PRESENT"]

\* Variant: every punch rewrites the status of the day.
FillSlotResettingStatus(row, slot, current_time) ==
    IF slot = "time_in_am"
    THEN MorningStatus([row EXCEPT !.time_in_am = current_time], current_time)
    ELSE [row EXCEPT ![slot] = current_time, !.status = "PRESENT", !.minutes_late = 0]

\* The assignments of the branch that fills `slot` (lines 231-241, 255-257,
\* 273-275, 291-293)
FillSlot(row, slot, current_time) ==
    IF slot = "time_in_am"
    THEN MorningStatus([row EXCEPT !.time_in_am = current_time], current_time)
    ELSE [row EXCEPT ![slot] = current_time]


\* process_general_attendance(student) at time t, as verify_scan answers it.
\* The call of line 306 passes three arguments to trigger_parent_notification,
\* which takes one: it raises TypeError before the callee runs, after the row
\* is saved, and verify_scan's `except Exception` answers 500.
process_general_attendance(rows, student, t) ==
    LET got == daily_get_or_create(rows, student, Date(t))
        slot == Band(Tod(t))
    IN IF slot = None
       THEN [rows |-> got.rows, reply |-> Reply("gate", 200, "NoAction")]
       ELSE IF SlotFree(got.row[slot])
            THEN [rows |-> (got.rows \ {got.row})
                               \cup {FillSlot(got.row, slot, Tod(t))},
                  reply |-> ReplyAbout("gate", 500, "TypeError", student, slot)]
            ELSE [rows |-> got.rows, reply |-> ReplyAbout("gate", 409, "AlreadyPunched", student, slot)]

\* verify_scan without a subject id
VerifyScanGate(uuid_str, t) ==
    /\ ops < MaxOps
    /\ t >= now
    /\ now' = t
    /\ ops' = ops + 1
    /\ UNCHANGED <<attendance_records, parent_notifications, school_settings,
                   tokens, requests, call>>
    /\ IF uuid_str = NoToken
       THEN /\ response' = Reply("gate", 400, "MissingQR")
            /\ UNCHANGED daily_attendance
       ELSE LET actual_uuid == verify_qr_data(uuid_str, default_max_age, t)
                student == StudentByUuid(actual_uuid)
            IN IF actual_uuid = None
               THEN /\ response' = Reply("gate", 403, "InvalidToken")
                    /\ UNCHANGED daily_attendance
               ELSE IF student = None
               THEN /\ response' = Reply("gate", 404, "StudentNotFound")
                    /\ UNCHANGED daily_attendance
               ELSE LET r == process_general_attendance(daily_attendance, student, t)
                    IN /\ daily_attendance' = r.rows
                       /\ response' = r.reply
    /\ UNCHANGED <<users, student_profiles>>

\* --------------------------------------------------------- request inputs

\* What a scanner can post at time t: nothing, a token issued just now for a
\* student or for an identifier no student has, one issued 301 seconds ago,
\* and a fresh-looking one that carries the signature of an older token.
TokenInputs(t) ==
    {NoToken}
    \cup {sign(u, t) : u \in Uuids \cup {"u9"}}
    \cup {sign("u1", t - (301 * 2))}
    \cup {[sign("u1", t - (301 * 2)) EXCEPT !.timestamp = t \div 2]}

StatusInputs == {"PRESENT", "LATE", "ABSENT", "EXCUSED", None}

\* The forms a teacher can post: every status for every student of the
\* roster in a subject of their own, and one request each for a subject of
\* another teacher, an unknown subject and an unknown student.
ManualInputs ==
    {[teacher |-> Subjects[j].teacher, subject_id |-> j, student_id |-> s, status |-> st] :
        j \in SubjectIds, s \in Students, st \in StatusInputs}
    \cup {[teacher |-> "t2", subject_id |-> "subj1", student_id |-> "s1", status |-> "ABSENT"],
          [teacher |-> "t1", subject_id |-> "subj9", student_id |-> "s1", status |-> "ABSENT"],
          [teacher |-> "t1", subject_id |-> "subj1", student_id |-> "s9", status |-> "ABSENT"]}

SubjectTods == {HM(7, 44), HM(7, 45), HM(8, 11)}

GateTods == {HM(7, 55), HM(8, 0), HM(8, 0) + 1, HM(8, 30), HM(12, 0) - 1,
             HM(12, 0), HM(12, 30), HM(13, 0), HM(16, 0) - 1, HM(16, 0),
             HM(24, 0) - 1}

\* ------------------------------------------------------- specifications

Init ==
    /\ now = 0
    /\ attendance_records = {}
    /\ daily_attendance = {}
    /\ parent_notifications = <<>>
    /\ school_settings = {}
    /\ tokens = {}
    /\ requests = <<>>
    /\ response = Reply("none", 0, None)
    /\ call = NoCall
    /\ ops = 0
    /\ users = RosterUsers
    /\ student_profiles = RosterProfiles

SubjectScan ==
    \E t \in Instants(SubjectTods), subject_id \in SubjectIds \cup {"subj9"} :
        \E tok \in TokenInputs(t) : VerifyScanSubject(tok, subject_id, t)

Manual ==
    \E t \in Instants(SubjectTods), f \in ManualInputs :
        MarkManual(f.teacher, "POST", f.subject_id, f.student_id, f.status, t)

ManualGet ==
    \E t \in Instants(SubjectTods) : MarkManual("t1", "GET", "subj1", "s1", None, t)

GatePunch ==
    \E t \in Instants(GateTods) : \E tok \in TokenInputs(t) : VerifyScanGate(tok, t)

Next == SubjectScan \/ Manual \/ ManualGet

Spec == Init /\ [][Next]_vars

NextGate == GatePunch

SpecGate == Init /\ [][NextGate]_vars

\* ------------------------------------------ verify_scan, concurrent requests

\* Worker processes, each handling one subject scan: lines 42-106 are one
\* step (reads only), the INSERT of line 110 another (atomic in the database,
\* with its unique index).
Procs == 1 .. NumProcs

IdleRequest ==
    [pc |-> "idle", student |-> None, subject |-> None, status |-> None,
     date |-> NoTime, reply |-> Reply("none", 0, None)]

ConcValidate(p, uuid_str, subject_id, t) ==
    /\ requests[p].pc = "idle"
    /\ t >= now
    /\ now' = t
    /\ LET v == ScanValidate(uuid_str, subject_id, get_settings(school_settings), t)
       IN /\ school_settings' = IF v.settings_read THEN settings_table(school_settings)
                                ELSE school_settings
          /\ requests' =
                [requests EXCEPT ![p] =
                    IF v.pass
                    THEN [IdleRequest EXCEPT !.pc = "validated", !.student = v.student,
                                             !.subject = v.subject, !.status = v.status]
                    ELSE [IdleRequest EXCEPT !.pc = "done", !.reply = v.reply]]
          /\ response' = IF v.pass THEN response ELSE v.reply
    /\ UNCHANGED <<attendance_records, daily_attendance, parent_notifications,
                   tokens, call, ops>>
    /\ UNCHANGED <<users, student_profiles>>

\* Variant: the insert is not checked against the unique index.
ConcInsertUnchecked(p, t) ==
    /\ requests[p].pc = "validated"
    /\ t >= now
    /\ now' = t
    /\ LET r == requests[p]
           ins == ScanInsertOverwrite(attendance_records, r.student, r.subject,
                                      r.status, t)
       IN /\ attendance_records' = ins.rows
          /\ requests' = [requests EXCEPT ![p].pc = "done", ![p].date = Date(t),
                                          ![p].reply = ins.reply]
          /\ response' = ins.reply
    /\ UNCHANGED <<daily_attendance, parent_notifications, school_settings, tokens,
                   call, ops, users, student_profiles>>

\* The create of line 110 and the answer of lines 118-141
ConcInsert(p, t) ==
    /\ requests[p].pc = "validated"
    /\ t >= now
    /\ now' = t
    /\ LET r == requests[p]
           ins == ScanInsert(attendance_records, r.student, r.subject, r.status, t)
       IN /\ attendance_records' = ins.rows
          /\ requests' = [requests EXCEPT ![p].pc = "done", ![p].date = Date(t),
                                          ![p].reply = ins.reply]
          /\ response' = ins.reply
    /\ UNCHANGED <<daily_attendance, parent_notifications, school_settings, tokens,
                   call, ops, users, student_profiles>>

InitConc ==
    /\ now = 0
    /\ attendance_records = {}
    /\ daily_attendance = {}
    /\ parent_notifications = <<>>
    /\ school_settings = {}
    /\ tokens = {}
    /\ requests = [p \in Procs |-> IdleRequest]
    /\ response = Reply("none", 0, None)
    /\ call = NoCall
    /\ ops = 0
    /\ users = RosterUsers
    /\ student_profiles = RosterProfiles

ScanArrives ==
    \E p \in Procs, t \in Instants(SubjectTods), subject_id \in SubjectIds \cup {"subj9"} :
        \E tok \in TokenInputs(t) : ConcValidate(p, tok, subject_id, t)

ScanInserts == \E p \in Procs, t \in Instants(SubjectTods) : ConcInsert(p, t)

NextConc == ScanArrives \/ ScanInserts

SpecConc == InitConc /\ [][NextConc]_vars

\* ------------------------------------------------------- issuing tokens

\* digital_id: the student's page shows a QR code of generate_qr_code(uuid)
IssueToken(student, t) ==
    /\ Cardinality(tokens) < MaxTokens
    /\ t >= now
    /\ now' = t
    /\ tokens' = tokens \cup {sign(UuidOf(student), t)}
    /\ UNCHANGED <<attendance_records, daily_attendance, parent_notifications,
                   school_settings, requests, response, call, ops>>
    /\ UNCHANGED <<users, student_profiles>>

\* A token whose payload was rewritten to another student's identifier
Tampered(tok) == {[tok EXCEPT !.value = u] : u \in Uuids \ {tok.value}}

TokenTods == {HM(8, 0), HM(8, 0) + 1, HM(8, 5), HM(8, 5) + 1, HM(8, 11)}

Issue == \E s \in Students, t \in Instants(TokenTods) : IssueToken(s, t)

ScanIssued ==
    \E t \in Instants(TokenTods), subject_id \in SubjectIds :
        \E tok \in tokens : VerifyScanSubject(tok, subject_id, t)

ScanTampered ==
    \E t \in Instants(TokenTods), subject_id \in SubjectIds :
        \E tok \in tokens : \E bad \in Tampered(tok) :
            VerifyScanSubject(bad, subject_id, t)

NextToken == Issue \/ ScanIssued \/ ScanTampered

SpecToken == Init /\ [][NextToken]_vars

\* --------------------------------------------- the window check, called alone

WindowSchedules ==
    {[days_of_week |-> {"MON", "WED", "FRI"}, start_time |-> HM(8, 0),
      end_time |-> HM(9, 0)],
     [days_of_week |-> {"TUE"}, start_time |-> HM(0, 15), end_time |-> HM(23, 44)],
     [days_of_week |-> {"MON", "TUE"}, start_time |-> HM(0, 5), end_time |-> HM(23, 50)]}

WindowOffsets == {0 - HM(0, 1), 0 - 1, 0, 1, HM(0, 1)}

\* The times of day next to the bounds of a schedule, inside the day
WindowTods(subject, tolerance) ==
    {x \in {b + o : b \in {subject.start_time - (tolerance * HM(0, 1)),
                            subject.start_time,
                            subject.end_time,
                            subject.end_time + (tolerance * HM(0, 1))},
                    o \in WindowOffsets} : 0 <= x /\ x < DayTicks}

Tolerances == {NoTolerance, 0, 15}

\* The tolerance is_within_time_window works with (lines 69-72)
EffectiveTolerance(tolerance_minutes, table) ==
    IF tolerance_minutes = NoTolerance
    THEN get_settings(table).scan_tolerance_minutes
    ELSE tolerance_minutes

InitWindow ==
    /\ now = 0
    /\ attendance_records = {}
    /\ daily_attendance = {}
    /\ parent_notifications = <<>>
    /\ school_settings \in {{}, {[DefaultSettings EXCEPT !.scan_tolerance_minutes = 5]}}
    /\ tokens = {}
    /\ requests = <<>>
    /\ response = Reply("none", 0, None)
    /\ ops = 0
    /\ \E subject \in WindowSchedules, tolerance \in Tolerances, d \in Days :
          \E tod \in WindowTods(subject, EffectiveTolerance(tolerance, school_settings)) :
             call = [NoCall EXCEPT !.subject = subject,
                                   !.current_time = (d * DayTicks) + tod,
                                   !.tolerance_minutes = tolerance]
    /\ users = RosterUsers
    /\ student_profiles = RosterProfiles

\* is_within_time_window(subject, current_time, tolerance_minutes)
CallWindow ==
    /\ ~call.done
    /\ school_settings' = settings_table(school_settings)
    /\ call' = [call EXCEPT
                  !.done = TRUE,
                  !.result = is_within_time_window(call.subject, call.current_time,
                                 EffectiveTolerance(call.tolerance_minutes,
                                                    school_settings))]
    /\ UNCHANGED <<now, attendance_records, daily_attendance, parent_notifications,
                   tokens, requests, response, ops>>
    /\ UNCHANGED <<users, student_profiles>>

NextWindow == CallWindow

SpecWindow == InitWindow /\ [][NextWindow]_vars

\* ------------------------------------- subject scans around the late mark

LateTods == {HM(7, 30), HM(7, 50), HM(8, 10), HM(8, 10) + 119, HM(8, 11)}

\* The settings row is missing, or holds a tolerance the administrator chose.
LateSettings ==
    {{}} \cup {{[DefaultSettings EXCEPT !.scan_tolerance_minutes = m]} : m \in {0, 30}}

InitLate ==
    /\ now = 0
    /\ attendance_records = {}
    /\ daily_attendance = {}
    /\ parent_notifications = <<>>
    /\ school_settings \in LateSettings
    /\ tokens = {}
    /\ requests = <<>>
    /\ response = Reply("none", 0, None)
    /\ call = NoCall
    /\ ops = 0
    /\ users = RosterUsers
    /\ student_profiles = RosterProfiles

ScanLate ==
    \E t \in Instants(LateTods), subject_id \in SubjectIds, s \in Students :
        VerifyScanSubject(sign(UuidOf(s), t), subject_id, t)

NextLate == ScanLate

SpecLate == InitLate /\ [][NextLate]_vars

\* ------------------------------------ manual markings under chosen settings

\* The settings row is missing, or holds what the administrator saved.
NotifySettings ==
    {{}}
    \cup {{[DefaultSettings EXCEPT !.enable_auto_sms = FALSE,
                                   !.absence_alert_threshold = k]} : k \in {2, 3}}
    \cup {{[DefaultSettings EXCEPT !.absence_alert_threshold = 1]}}

\* The forms of a teacher for a subject of their own and a student of the
\* roster, marking present or absent
NotifyForms ==
    {f \in ManualInputs : /\ f.subject_id \in SubjectIds
                          /\ f.student_id \in Students
                          /\ f.teacher = Subjects[f.subject_id].teacher
                          /\ f.status \in {"PRESENT", "ABSENT"}}

NotifyTods == {HM(8, 0)}

InitNotify ==
    /\ now = 0
    /\ attendance_records = {}
    /\ daily_attendance = {}
    /\ parent_notifications = <<>>
    /\ school_settings \in NotifySettings
    /\ tokens = {}
    /\ requests = <<>>
    /\ response = Reply("none", 0, None)
    /\ call = NoCall
    /\ ops = 0
    /\ users = RosterUsers
    /\ student_profiles = RosterProfiles

ManualNotify ==
    \E t \in Instants(NotifyTods), f \in NotifyForms :
        MarkManual(f.teacher, "POST", f.subject_id, f.student_id, f.status, t)

NextNotify == ManualNotify

SpecNotify == InitNotify /\ [][NextNotify]_vars

\* --------------------------------------------------- attendance statistics

\* An optional argument that is None
NoDate == 0 - 1

\* round(x, 2) of x = n / d percent, in hundredths of a percent: the nearest
\* hundredth, a tie going to the even one.
RoundHundredths(n, d) ==
    LET q == (n * 100) \div d
        r == (n * 100) % d
    IN IF 2 * r < d THEN q
       ELSE IF 2 * r > d THEN q + 1
       ELSE IF q % 2 = 0 THEN q ELSE q + 1

\* Variant: late records do not count as attended.
calculate_attendance_percentage_present_only(rows, student, subject, date_from, date_to) ==
    LET records == {r \in rows : /\ r.student = student
                                 /\ subject # None => r.subject = subject
                                 /\ date_from # NoDate => r.date >= date_from
                                 /\ date_to # NoDate => r.date <= date_to}
        total == Cardinality(records)
        present == Cardinality({r \in records : r.status = "PRESENT"})
        late == Cardinality({r \in records : r.status = "LATE"})
        absent == Cardinality({r \in records : r.status = "ABSENT"})
    IN [total |-> total, present |-> present, late |-> late, absent |-> absent,
        percentage |-> IF total > 0 THEN RoundHundredths(present * 100, total)
                       ELSE 0]

\* calculate_attendance_percentage(student, subject, date_from, date_to); the
\* percentage is given in hundredths of a percent.
calculate_attendance_percentage(rows, student, subject, date_from, date_to) ==
    LET records == {r \in rows : /\ r.student = student
                                 /\ subject # None => r.subject = subject
                                 /\ date_from # NoDate => r.date >= date_from
                                 /\ date_to # NoDate => r.date <= date_to}
        total == Cardinality(records)
        present == Cardinality({r \in records : r.status = "PRESENT"})
        late == Cardinality({r \in records : r.status = "LATE"})
        absent == Cardinality({r \in records : r.status = "ABSENT"})
    IN [total |-> total, present |-> present, late |-> late, absent |-> absent,
        percentage |-> IF total > 0 THEN RoundHundredths((present + late) * 100, total)
                       ELSE 0]

\* The keys that can hold a record: the enrolled pairs on the two days
StatsKeys ==
    <<[student |-> "s1", subject |-> "subj1", date |-> 0],
      [student |-> "s1", subject |-> "subj2", date |-> 0],
      [student |-> "s1", subject |-> "subj1", date |-> 1],
      [student |-> "s1", subject |-> "subj2", date |-> 1],
      [student |-> "s2", subject |-> "subj1", date |-> 0]>>

\* The tables of records over these keys: each key has no record, or one
\* with a status a scan or a marking can have stored.
StatsTables ==
    {{NewRecord(i, StatsKeys[i].student, StatsKeys[i].subject, StatsKeys[i].date,
                a[i], IF a[i] \in {"PRESENT", "LATE"} THEN "QR" ELSE "MANUAL") :
         i \in {j \in DOMAIN StatsKeys : a[j] # None}} :
       a \in [DOMAIN StatsKeys -> StatusInputs]}

NoStatsResult == [total |-> 0, present |-> 0, late |-> 0, absent |-> 0, percentage |-> 0]

InitStats ==
    /\ now = 0
    /\ attendance_records \in StatsTables
    /\ daily_attendance = {}
    /\ parent_notifications = <<>>
    /\ school_settings = {}
    /\ tokens = {}
    /\ requests = <<>>
    /\ response = Reply("none", 0, None)
    /\ ops = 0
    /\ \E student \in Students, subject \in {None, "subj1"},
          date_from \in {NoDate, 1}, date_to \in {NoDate, 0} :
             call = [student |-> student, subject |-> subject, date_from |-> date_from,
                     date_to |-> date_to, done |-> FALSE, result |-> NoStatsResult]
    /\ users = RosterUsers
    /\ student_profiles = RosterProfiles

\* student_dashboard: one call of calculate_attendance_percentage
CallStats ==
    /\ ~call.done
    /\ call' = [call EXCEPT
                  !.done = TRUE,
                  !.result = calculate_attendance_percentage(attendance_records,
                                 call.student, call.subject, call.date_from,
                                 call.date_to)]
    /\ UNCHANGED <<now, attendance_records, daily_attendance, parent_notifications,
                   school_settings, tokens, requests, response, ops>>
    /\ UNCHANGED <<users, student_profiles>>

NextStats == CallStats

SpecStats == InitStats /\ [][NextStats]_vars

\* ------------------------------------------- gate punches, concurrent requests

\* Worker processes, each handling one gate punch.  Lines 209-215 are one
\* step: the clock is read and get_or_create returns the row, which the
\* handler keeps in memory.  Lines 229-302 are another: the slot is tested
\* and set on the copy in memory, and save() writes every field of the copy
\* to the row.  Nothing locks the row between the two.
IdlePunch ==
    [pc |-> "idle", student |-> None, time |-> NoTime, slot |-> None,
     attendance |-> NewDaily(None, NoTime), reply |-> Reply("none", 0, None)]

\* verify_scan up to line 215 of process_general_attendance
PunchRead(p, uuid_str, t) ==
    /\ requests[p].pc = "idle"
    /\ t >= now
    /\ now' = t
    /\ UNCHANGED <<attendance_records, parent_notifications, school_settings,
                   tokens, call, ops>>
    /\ IF uuid_str = NoToken
       THEN /\ requests' = [requests EXCEPT ![p].pc = "done",
                               ![p].reply = Reply("gate", 400, "MissingQR")]
            /\ response' = Reply("gate", 400, "MissingQR")
            /\ UNCHANGED daily_attendance
       ELSE LET actual_uuid == verify_qr_data(uuid_str, default_max_age, t)
                student == StudentByUuid(actual_uuid)
            IN IF actual_uuid = None
               THEN /\ requests' = [requests EXCEPT ![p].pc = "done",
                                       ![p].reply = Reply("gate", 403, "InvalidToken")]
                    /\ response' = Reply("gate", 403, "InvalidToken")
                    /\ UNCHANGED daily_attendance
               ELSE IF student = None
               THEN /\ requests' = [requests EXCEPT ![p].pc = "done",
                                       ![p].reply = Reply("gate", 404, "StudentNotFound")]
                    /\ response' = Reply("gate", 404, "StudentNotFound")
                    /\ UNCHANGED daily_attendance
               ELSE LET got == daily_get_or_create(daily_attendance, student, Date(t))
                    IN /\ daily_attendance' = got.rows
                       /\ requests' = [requests EXCEPT ![p].pc = "read",
                                          ![p].student = student, ![p].time = t,
                                          ![p].slot = Band(Tod(t)),
                                          ![p].attendance = got.row]
                       /\ response' = response
    /\ UNCHANGED <<users, student_profiles>>

\* attendance.save(): every column of the row of the key is overwritten
save(rows, attendance) ==
    {r \in rows : ~(r.student = attendance.student /\ r.date = attendance.date)}
    \cup {attendance}

\* Lines 229-325 on the copy in memory, and the answer of verify_scan
PunchSave(p) ==
    /\ requests[p].pc = "read"
    /\ UNCHANGED <<now, attendance_records, parent_notifications, school_settings,
                   tokens, call, ops>>
    /\ LET r == requests[p]
       IN IF SlotFree(r.attendance[r.slot])
          THEN LET filled == FillSlot(r.attendance, r.slot, Tod(r.time))
                   reply == ReplyAbout("gate", 500, "TypeError", r.student, r.slot)
               IN /\ daily_attendance' = save(daily_attendance, filled)
                  /\ requests' = [requests EXCEPT ![p].pc = "done",
                                     ![p].attendance = filled, ![p].reply = reply]
                  /\ response' = reply
          ELSE LET reply == ReplyAbout("gate", 409, "AlreadyPunched", r.student, r.slot)
               IN /\ daily_attendance' = daily_attendance
                  /\ requests' = [requests EXCEPT ![p].pc = "done", ![p].reply = reply]
                  /\ response' = reply
    /\ UNCHANGED <<users, student_profiles>>

PunchTods == {HM(7, 55), HM(8, 30), HM(12, 0) - 1, HM(12, 0), HM(13, 0)}

InitPunch ==
    /\ now = 0
    /\ attendance_records = {}
    /\ daily_attendance = {}
    /\ parent_notifications = <<>>
    /\ school_settings = {}
    /\ tokens = {}
    /\ requests = [p \in Procs |-> IdlePunch]
    /\ response = Reply("none", 0, None)
    /\ call = NoCall
    /\ ops = 0
    /\ users = RosterUsers
    /\ student_profiles = RosterProfiles

PunchArrives ==
    \E p \in Procs, t \in Instants(PunchTods) :
        \E tok \in {NoToken, sign("u1", t), sign("u2", t), sign("u9", t),
                    sign("u1", t - (301 * 2))} :
            PunchRead(p, tok, t)

PunchSaves == \E p \in Procs : PunchSave(p)

NextPunch == PunchArrives \/ PunchSaves

SpecPunch == InitPunch /\ [][NextPunch]_vars

\* ----------------------------------- scans at the edge of the window, marked

OrderTods == {HM(7, 44), HM(7, 45)}

\* A teacher marks a student of their own subject absent
OrderForms ==
    {f \in ManualInputs : /\ f.subject_id \in SubjectIds
                          /\ f.student_id \in Students
                          /\ f.teacher = Subjects[f.subject_id].teacher
                          /\ f.status = "ABSENT"}

ScanOrder ==
    \E t \in Instants(OrderTods), subject_id \in SubjectIds \cup {"subj9"} :
        \E tok \in TokenInputs(t) : VerifyScanSubject(tok, subject_id, t)

ManualOrder ==
    \E t \in Instants(OrderTods), f \in OrderForms :
        MarkManual(f.teacher, "POST", f.subject_id, f.student_id, f.status, t)

NextOrder == ScanOrder \/ ManualOrder

SpecOrder == Init /\ [][NextOrder]_vars

\* ------------------------------------------------------- settings update

\* A form field as posted: text that int() parses to `value`, or text that
\* int() refuses with ValueError.
Numeral(n) == [numeric |-> TRUE, value |-> n]
NotANumber == [numeric |-> FALSE, value |-> 0]

\* school_settings_view(request) by a staff user
school_settings_view(method, absence_alert_threshold, enable_auto_sms, scan_tolerance_minutes) ==
    /\ ops < MaxOps
    /\ ops' = ops + 1
    /\ UNCHANGED <<now, attendance_records, daily_attendance, parent_notifications,
                   tokens, requests, call>>
    /\ IF method # "POST"
       THEN /\ school_settings' = settings_table(school_settings)
            /\ response' = Reply("settings", 200, "Form")
       ELSE IF ~absence_alert_threshold.numeric \/ ~scan_tolerance_minutes.numeric
       THEN \* int() raises ValueError, uncaught; get_settings has run
            /\ school_settings' = settings_table(school_settings)
            /\ response' = Reply("settings", 500, "ValueError")
       ELSE /\ school_settings' =
                  {[get_settings(school_settings) EXCEPT
                      !.absence_alert_threshold = absence_alert_threshold.value,
                      !.enable_auto_sms = enable_auto_sms,
                      !.scan_tolerance_minutes = scan_tolerance_minutes.value]}
            /\ response' = Reply("settings", 302, "Updated")
    /\ UNCHANGED <<users, student_profiles>>

ThresholdInputs == {Numeral(0), Numeral(1), Numeral(3), NotANumber}
ToleranceInputs == {Numeral(0 - 5), Numeral(0), Numeral(15), NotANumber}

SettingsPost ==
    \E threshold \in ThresholdInputs, auto \in BOOLEAN, tolerance \in ToleranceInputs :
        school_settings_view("POST", threshold, auto, tolerance)

SettingsGet == school_settings_view("GET", NotANumber, FALSE, NotANumber)

NextSettings == SettingsPost \/ SettingsGet

SpecSettings == Init /\ [][NextSettings]_vars

\* --------------------------------- the first gate punches of a day, in steps

\* A DailyAttendance row with its primary key
NewDailyRow(id, student, date) ==
    [id |-> id, student |-> student, date |-> date,
     time_in_am |-> NoTime, time_out_am |-> NoTime,
     time_in_pm |-> NoTime, time_out_pm |-> NoTime,
     status |-> "ABSENT", minutes_late |-> 0]

\* Variant: the table accepts a second row for a (student, date).
NoDailyUniqueCheck(rows, student, date) == FALSE

\* The uniqueness of (student, date) in the table of daily records
DailyUniqueViolation(rows, student, date) == DailyRows(rows, student, date) # {}

\* verify_scan up to the lookup inside get_or_create (line 213): the row is
\* found, or has to be created.
PunchLookup(p, uuid_str, t) ==
    /\ requests[p].pc = "idle"
    /\ t >= now
    /\ now' = t
    /\ UNCHANGED <<attendance_records, daily_attendance, parent_notifications,
                   school_settings, tokens, call, ops>>
    /\ IF uuid_str = NoToken
       THEN /\ requests' = [requests EXCEPT ![p].pc = "done",
                               ![p].reply = Reply("gate", 400, "MissingQR")]
            /\ response' = Reply("gate", 400, "MissingQR")
       ELSE LET actual_uuid == verify_qr_data(uuid_str, default_max_age, t)
                student == StudentByUuid(actual_uuid)
            IN IF actual_uuid = None
               THEN /\ requests' = [requests EXCEPT ![p].pc = "done",
                                       ![p].reply = Reply("gate", 403, "InvalidToken")]
                    /\ response' = Reply("gate", 403, "InvalidToken")
               ELSE IF student = None
               THEN /\ requests' = [requests EXCEPT ![p].pc = "done",
                                       ![p].reply = Reply("gate", 404, "StudentNotFound")]
                    /\ response' = Reply("gate", 404, "StudentNotFound")
               ELSE LET found == DailyRows(daily_attendance, student, Date(t))
                    IN /\ response' = response
                       /\ requests' =
                            [requests EXCEPT
                               ![p].pc = IF found # {} THEN "read" ELSE "create",
                               ![p].student = student, ![p].time = t,
                               ![p].slot = Band(Tod(t)),
                               ![p].attendance =
                                   IF found # {} THEN CHOOSE r \in found : TRUE
                                   ELSE requests[p].attendance]
    /\ UNCHANGED <<users, student_profiles>>

\* The create inside get_or_create: the INSERT, or on IntegrityError the
\* row that another request has inserted meanwhile.
PunchCreate(p) ==
    /\ requests[p].pc = "create"
    /\ UNCHANGED <<now, attendance_records, parent_notifications, school_settings,
                   tokens, call, ops, response>>
    /\ LET r == requests[p]
           date == Date(r.time)
       IN IF DailyUniqueViolation(daily_attendance, r.student, date)
          THEN /\ daily_attendance' = daily_attendance
               /\ requests' = [requests EXCEPT ![p].pc = "read",
                                  ![p].attendance =
                                      CHOOSE row \in DailyRows(daily_attendance,
                                                               r.student, date) : TRUE]
          ELSE LET new == NewDailyRow(NextId(daily_attendance), r.student, date)
               IN /\ daily_attendance' = daily_attendance \cup {new}
                  /\ requests' = [requests EXCEPT ![p].pc = "read",
                                     ![p].attendance = new]
    /\ UNCHANGED <<users, student_profiles>>

FirstPunchTods == {HM(7, 55), HM(12, 0)}

PunchLooksUp ==
    \E p \in Procs, t \in Instants(FirstPunchTods) :
        \E tok \in {NoToken, sign("u1", t), sign("u2", t), sign("u9", t),
                    sign("u1", t - (301 * 2))} :
            PunchLookup(p, tok, t)

PunchCreates == \E p \in Procs : PunchCreate(p)

NextFirstPunch == PunchLooksUp \/ PunchCreates \/ PunchSaves

SpecFirstPunch == InitPunch /\ [][NextFirstPunch]_vars

\* ------------------------------- the two evaluators, called again and again

\* The arguments of the calls: a subject, an instant, a tolerance, a token
InitPure ==
    /\ now = 0
    /\ attendance_records = {}
    /\ daily_attendance = {}
    /\ parent_notifications = <<>>
    /\ school_settings \in {{}, {[DefaultSettings EXCEPT !.scan_tolerance_minutes = 5]}}
    /\ tokens = {}
    /\ requests = <<>>
    /\ response = Reply("none", 0, None)
    /\ ops = 0
    /\ \E subject \in WindowSchedules, tolerance \in Tolerances, d \in Days :
          \E tod \in WindowTods(subject, EffectiveTolerance(tolerance, school_settings)) :
             \E signed_data \in TokenInputs((d * DayTicks) + tod) :
                call = [subject |-> subject, current_time |-> (d * DayTicks) + tod,
                        tolerance_minutes |-> tolerance, signed_data |-> signed_data,
                        last |-> None, done |-> FALSE,
                        result |-> [ok |-> FALSE, reason |-> None],
                        verified |-> FALSE, actual_uuid |-> None]
    /\ users = RosterUsers
    /\ student_profiles = RosterProfiles

\* One more call of is_within_time_window with the arguments
WindowCall ==
    /\ ops < MaxOps
    /\ ops' = ops + 1
    /\ school_settings' = settings_table(school_settings)
    /\ call' = [call EXCEPT
                  !.last = "is_within_time_window",
                  !.done = TRUE,
                  !.result = is_within_time_window(call.subject, call.current_time,
                                 EffectiveTolerance(call.tolerance_minutes,
                                                    school_settings))]
    /\ UNCHANGED <<now, attendance_records, daily_attendance, parent_notifications,
                   tokens, requests, response>>
    /\ UNCHANGED <<users, student_profiles>>

\* One more call of verify_qr_data with the token
VerifyCall ==
    /\ ops < MaxOps
    /\ ops' = ops + 1
    /\ call' = [call EXCEPT
                  !.last = "verify_qr_data",
                  !.verified = TRUE,
                  !.actual_uuid = verify_qr_data(call.signed_data, default_max_age,
                                                 call.current_time)]
    /\ UNCHANGED <<now, attendance_records, daily_attendance, parent_notifications,
                   school_settings, tokens, requests, response>>
    /\ UNCHANGED <<users, student_profiles>>

NextPure == WindowCall \/ VerifyCall

SpecPure == InitPure /\ [][NextPure]_vars

\* ------------------------- subject scans, markings and gate punches together

FrameTods == {HM(8, 0), HM(12, 0)}

\* Fresh tokens of the students
FrameTokens(t) == {sign(u, t) : u \in Uuids}

\* Markings by the subject's teacher
FrameForms ==
    {f \in ManualInputs : /\ f.subject_id \in SubjectIds
                          /\ f.student_id \in Students
                          /\ f.teacher = Subjects[f.subject_id].teacher
                          /\ f.status \in {"PRESENT", "ABSENT"}}

ScanFrame ==
    \E t \in Instants(FrameTods), subject_id \in SubjectIds :
        \E tok \in FrameTokens(t) : VerifyScanSubject(tok, subject_id, t)

ManualFrame ==
    \E t \in Instants(FrameTods), f \in FrameForms :
        MarkManual(f.teacher, "POST", f.subject_id, f.student_id, f.status, t)

PunchFrame ==
    \E t \in Instants(FrameTods) : \E tok \in FrameTokens(t) : VerifyScanGate(tok, t)

NextFrame == ScanFrame \/ ManualFrame \/ PunchFrame

SpecFrame == Init /\ [][NextFrame]_vars

\* ---------------------------------------------------- student registration

\* StudentProfile.save refuses a grade 11 or 12 profile without strand
StrandMissing(profile) ==
    profile.grade_level \in {11, 12} /\ profile.strand = ""

\* StudentRegistrationForm.is_valid: the LRN is required and, being a unique
\* field of the model form, must not be the LRN of a stored profile
FormValid(student_id, profiles) ==
    /\ student_id # ""
    /\ \A q \in profiles : q.student_id # student_id

\* add_student_view(request) of a teacher with an advisory class.  The user
\* is created and committed before the profile is saved; the ValueError of
\* StudentProfile.save is not caught and there is no transaction around the
\* two writes.
add_student_view(teacher, method, student_id, strand) ==
    /\ ops < MaxOps
    /\ ops' = ops + 1
    /\ UNCHANGED <<now, attendance_records, daily_attendance, parent_notifications,
                   school_settings, tokens, requests, call>>
    /\ IF method # "POST"
       THEN /\ response' = Reply("register", 200, "Form")
            /\ UNCHANGED <<users, student_profiles>>
       ELSE IF ~FormValid(student_id, student_profiles)
       THEN /\ response' = ReplyAbout("register", 200, "FormInvalid", student_id, None)
            /\ UNCHANGED <<users, student_profiles>>
       ELSE IF \E u \in users : u.username = student_id
       THEN /\ response' = ReplyAbout("register", 200, "AlreadyExists", student_id, None)
            /\ UNCHANGED <<users, student_profiles>>
       ELSE LET student == NewProfile(student_id, student_id,
                                      advisory_grade(teacher), strand)
            IN /\ users' = users \cup {[username |-> student_id, role |-> "STUDENT"]}
               /\ IF StrandMissing(student)
                  THEN /\ response' = ReplyAbout("register", 500, "ValueError",
                                                 student_id, None)
                       /\ UNCHANGED student_profiles
                  ELSE /\ response' = ReplyAbout("register", 302, "Added",
                                                 student_id, None)
                       /\ student_profiles' = student_profiles \cup {student}

\* The LRNs a teacher types: two new ones, one of the roster, none
LrnInputs == {"lrn1", "lrn2", "s1", ""}

StrandInputs == {"", "STEM"}

RegisterPost ==
    \E teacher \in Teachers, student_id \in LrnInputs, strand \in StrandInputs :
        add_student_view(teacher, "POST", student_id, strand)

RegisterGet == \E teacher \in Teachers : add_student_view(teacher, "GET", "", "")

NextRegister == RegisterPost \/ RegisterGet

SpecRegister == Init /\ [][NextRegister]_vars

\* ------------------------------------------------------------------ claims

SameKey(r1, r2) ==
    r1.student = r2.student /\ r1.subject = r2.subject /\ r1.date = r2.date

\* C1: whatever subject scans and manual markings have been handled, no two
\* Subject Attendance Records share a (student, subject, date) triple.
C1_OneRecordPerKey ==
    \A r1, r2 \in attendance_records : SameKey(r1, r2) => r1 = r2

\* A scan was just refused as a duplicate of a record that a manual marking
\* wrote, while another record exists beside it.
C1_Witness ==
    /\ response.op = "scan" /\ response.code = 409
    /\ Cardinality(attendance_records) >= 2
    /\ \E r \in attendance_records :
          /\ r.student = response.student /\ r.subject = response.subject
          /\ r.date = Date(now) /\ r.scan_method = "MANUAL"

\* The scan passes the token, roster, enrollment and window checks.
ScanPassesChecks(tok, subject_id, t) ==
    /\ tok # NoToken
    /\ verify_qr_data(tok, default_max_age, t) \in Uuids
    /\ subject_id \in SubjectIds
    /\ StudentByUuid(tok.value) \in Subjects[subject_id].students
    /\ is_within_time_window(Subjects[subject_id], t,
                             get_settings(school_settings).scan_tolerance_minutes).ok

\* C2: a subject scan that passes the token, enrollment and window checks
\* for a key that already has a record (written by a scan or by a manual
\* marking, ABSENT included) is answered 409 and changes no record and no
\* notification; so repeating it never changes or adds a record.
C2_DuplicateScanRejected ==
    [][response'.op = "scan" =>
        \A subject_id \in SubjectIds : \A tok \in TokenInputs(now') :
            ( /\ tok.value \in Uuids
              /\ KeyRows(attendance_records, StudentByUuid(tok.value),
                         subject_id, Date(now')) # {}
              /\ ScanPassesChecks(tok, subject_id, now')
              /\ VerifyScanSubject(tok, subject_id, now') )
            => /\ response'.code = 409
               /\ response'.kind = "AlreadyMarked"
               /\ attendance_records' = attendance_records
               /\ parent_notifications' = parent_notifications]_vars

\* A scan was refused as a duplicate of a record marked ABSENT by hand.
C2_Witness ==
    /\ response.op = "scan" /\ response.code = 409
    /\ \E r \in attendance_records :
          /\ r.student = response.student /\ r.subject = response.subject
          /\ r.date = Date(now) /\ r.scan_method = "MANUAL" /\ r.status = "ABSENT"

\* The requests that have run their insert for the key (student, subject, date)
Inserted(student, subject, date) ==
    {p \in Procs : /\ requests[p].pc = "done"
                   /\ requests[p].reply.code \in {200, 409}
                   /\ requests[p].student = student
                   /\ requests[p].subject = subject
                   /\ requests[p].date = date}

\* C3: of the concurrent subject scans that reach their insert for one
\* (student, subject, date), however their validation and insert steps
\* interleave, exactly one is answered 200 and every other one 409; the key
\* has one record, with the status the winner computed.
C3_ExactlyOneWins ==
    \A s \in Students, j \in SubjectIds, d \in Days :
        Inserted(s, j, d) # {} =>
            \E w \in Inserted(s, j, d) :
                /\ requests[w].reply.code = 200
                /\ \A l \in Inserted(s, j, d) \ {w} :
                      /\ requests[l].reply.code = 409
                      /\ requests[l].reply.kind = "AlreadyMarked"
                /\ \E r \in attendance_records :
                      /\ KeyRows(attendance_records, s, j, d) = {r}
                      /\ r.status = requests[w].status
                      /\ r.scan_method = "QR"

\* Two scans of one key, interleaved: the loser validated first (it computed
\* PRESENT, the winner LATE) and inserted last.
C3_Witness ==
    \E w, l \in Procs :
        /\ w # l
        /\ requests[w].pc = "done" /\ requests[l].pc = "done"
        /\ requests[w].reply.code = 200 /\ requests[l].reply.code = 409
        /\ requests[w].student = requests[l].student
        /\ requests[w].subject = requests[l].subject
        /\ requests[w].date = requests[l].date
        /\ requests[w].status = "LATE" /\ requests[l].status = "PRESENT"
        /\ \E r \in attendance_records :
              /\ r.student = requests[w].student /\ r.subject = requests[w].subject
              /\ r.date = requests[w].date /\ r.status = "LATE"

\* ------------------------------------------------------------ gate claims

Slots == {"time_in_am", "time_out_am", "time_in_pm", "time_out_pm"}

\* The four time bands of the gate log
TimeBand(tod) ==
    CASE tod < HM(12, 0) -> "time_in_am"
      [] HM(12, 0) <= tod /\ tod < HM(13, 0) -> "time_out_am"
      [] HM(13, 0) <= tod /\ tod < HM(16, 0) -> "time_in_pm"
      [] tod >= HM(16, 0) -> "time_out_pm"

\* The daily row of (student, date) in a table, as a punch would find it
DailyOf(rows, student, date) ==
    IF DailyRows(rows, student, date) # {}
    THEN CHOOSE r \in DailyRows(rows, student, date) : TRUE
    ELSE NewDaily(student, date)

\* The step is a gate punch that got as far as the student's daily record.
GateStepOf(student) ==
    /\ response'.op = "gate"
    /\ \E u \in Uuids \cup {"u9"} :
          /\ StudentByUuid(u) = student
          /\ VerifyScanGate(sign(u, now'), now')

\* C4: once a gate slot of a (student, date) holds a time, no step alters
\* it, and every later punch of that student on that date in the same band
\* is answered 409 AlreadyPunched and leaves the daily records as they were.
C4_SlotWriteOnce ==
    [][\A row \in daily_attendance : \A slot \in Slots :
          row[slot] # NoTime =>
             /\ DailyOf(daily_attendance', row.student, row.date)[slot] = row[slot]
             /\ ( /\ Date(now') = row.date
                  /\ TimeBand(Tod(now')) = slot
                  /\ GateStepOf(row.student) )
                => /\ response'.code = 409
                   /\ response'.kind = "AlreadyPunched"
                   /\ daily_attendance' = daily_attendance]_vars

\* A morning time-in of 07:55, and a punch of 08:30 just refused for it.
C4_Witness ==
    /\ response.op = "gate" /\ response.code = 409
    /\ Tod(now) = HM(8, 30)
    /\ \E row \in daily_attendance :
          /\ row.student = response.student /\ row.date = Date(now)
          /\ row.time_in_am = HM(7, 55)

\* C5: the slot a gate punch targets depends on the time of day alone:
\* AM-in before 12:00, AM-out in [12:00,13:00), PM-in in [13:00,16:00), PM-out
\* from 16:00 on.  Whatever the row holds, the punch names that slot, fills
\* it if it is empty, and touches no other slot.
C5_SlotFromTimeOnly ==
    [][\A student \in Students :
          GateStepOf(student) =>
             LET band == TimeBand(Tod(now'))
                 old == DailyOf(daily_attendance, student, Date(now'))
                 new == DailyOf(daily_attendance', student, Date(now'))
             IN /\ response'.subject = band
                /\ new[band] = IF old[band] = NoTime THEN Tod(now') ELSE old[band]
                /\ \A slot \in Slots \ {band} : new[slot] = old[slot]]_vars

\* A punch at 12:00 sharp went to AM-out, on a day without a morning time-in.
C5_Witness ==
    /\ response.op = "gate" /\ response.subject = "time_out_am"
    /\ Tod(now) = HM(12, 0)
    /\ \E row \in daily_attendance :
          /\ row.student = response.student /\ row.date = Date(now)
          /\ row.time_in_am = NoTime /\ row.time_out_am = HM(12, 0)

\* C6: a punch that fills AM-in at time t makes the day LATE with
\* minutes_late = (minutes of t since midnight) - 480 when t is after 08:00,
\* and PRESENT otherwise; a LATE day never has negative minutes_late.
C6_MorningLateness ==
    /\ [](\A row \in daily_attendance : row.status = "LATE" => row.minutes_late >= 0)
    /\ [][\A student \in Students :
            LET old == DailyOf(daily_attendance, student, Date(now'))
                new == DailyOf(daily_attendance', student, Date(now'))
            IN (old.time_in_am = NoTime /\ new.time_in_am # NoTime) =>
                 IF new.time_in_am > HM(8, 0)
                 THEN /\ new.status = "LATE"
                      /\ new.minutes_late = (new.time_in_am \div HM(0, 1)) - 480
                 ELSE new.status = "PRESENT"]_vars

\* One day timed in at 08:00 sharp and PRESENT, another at 08:30 and 30
\* minutes LATE.
C6_Witness ==
    /\ \E row \in daily_attendance :
          row.time_in_am = HM(8, 0) /\ row.status = "PRESENT"
    /\ \E row \in daily_attendance :
          row.time_in_am = HM(8, 30) /\ row.status = "LATE" /\ row.minutes_late = 30

\* C7: only a punch that fills AM-in writes the daily status and
\* minutes_late: a step that leaves time_in_am as it was leaves both as they
\* were (a row created by a later punch has the values of a new row), and
\* once AM-in is set the status of that date never changes.
C7_OnlyMorningSetsStatus ==
    [][\A student \in Students, date \in Days :
          LET old == DailyOf(daily_attendance, student, date)
              new == DailyOf(daily_attendance', student, date)
          IN /\ new.time_in_am = old.time_in_am =>
                  new.status = old.status /\ new.minutes_late = old.minutes_late
             /\ old.time_in_am # NoTime => new.status = old.status]_vars

\* A day that is LATE by its morning time-in and has an afternoon time-in.
C7_Witness ==
    \E row \in daily_attendance :
        /\ row.time_in_am = HM(8, 30) /\ row.time_in_pm = HM(13, 0)
        /\ row.status = "LATE" /\ row.minutes_late = 30

\* C8: every gate punch that fills a slot creates exactly one Parent
\* Notification, linked to no attendance record, and a punch refused as
\* AlreadyPunched creates none.
C8_PunchNotifies ==
    [][\A student \in Students :
          GateStepOf(student) =>
             IF daily_attendance' # daily_attendance
             THEN /\ Len(parent_notifications') = Len(parent_notifications) + 1
                  /\ parent_notifications'[Len(parent_notifications')].student = student
                  /\ parent_notifications'[Len(parent_notifications')].attendance_record
                         = NoRecord
             ELSE parent_notifications' = parent_notifications]_vars

\* ----------------------------------------------------------- token claims

\* C9: a scan that presents an untampered issued token, whose timestamp T
\* is the whole second it was signed in, passes verification exactly when
\* now - T <= 300 seconds; nothing is consumed, so it passes again within
\* that age after it was used for a recorded scan.
C9_FreshnessOnly ==
    [][response'.op = "scan" =>
        \A subject_id \in SubjectIds : \A tok \in tokens :
            VerifyScanSubject(tok, subject_id, now') =>
               ( response'.kind # "InvalidToken"
                   <=> now' - (tok.timestamp * 2) <= 300 * 2 )]_vars

\* The only token handed out was used for a recorded scan and, exactly 300
\* seconds old, it was verified again: the scan got as far as the duplicate.
C9_Witness ==
    /\ Cardinality(tokens) = 1
    /\ response.op = "scan" /\ response.code = 409
    /\ \A tok \in tokens : now - (tok.timestamp * 2) = 300 * 2

\* ---------------------------------------------------------- window claims

\* The tolerance-adjusted bounds of the call stay inside the calendar day.
InsideOneDay(subject, tolerance) ==
    /\ subject.start_time - (tolerance * HM(0, 1)) >= 0
    /\ subject.end_time + (tolerance * HM(0, 1)) < DayTicks

\* C10: for a schedule whose tolerance-adjusted bounds stay inside one day,
\* the window check accepts exactly when the weekday is scheduled and
\* start - tolerance <= time of day <= end + tolerance, and on another
\* weekday it refuses with the not-scheduled reason whatever the time.
C10_WindowInclusive ==
    LET tolerance == EffectiveTolerance(call.tolerance_minutes, school_settings)
        tod == Tod(call.current_time)
        lower == call.subject.start_time - (tolerance * HM(0, 1))
        upper == call.subject.end_time + (tolerance * HM(0, 1))
        scheduled == Weekday(call.current_time) \in call.subject.days_of_week
    IN (call.done /\ InsideOneDay(call.subject, tolerance)) =>
          /\ call.result.ok <=> (scheduled /\ lower <= tod /\ tod <= upper)
          /\ ~scheduled => call.result.reason = "NotScheduled"
          /\ (scheduled /\ ~call.result.ok) => call.result.reason = "OutsideClassTime"

\* A Monday scan at 07:45 sharp, the lower bound of 08:00 with the default
\* tolerance of 15 minutes, was accepted.
C10_Witness ==
    /\ call.done /\ call.result.ok
    /\ call.tolerance_minutes = NoTolerance
    /\ call.subject.start_time = HM(8, 0)
    /\ Weekday(call.current_time) = "MON"
    /\ Tod(call.current_time) = HM(7, 45)

\* ------------------------------------------------------ late classification

MinutesOfDay(tod) == tod \div HM(0, 1)

\* C11: every accepted subject scan creates a record whose status is LATE
\* exactly when the minutes of now since midnight less the minutes of the
\* subject's start since midnight exceed 10, and PRESENT otherwise, whatever
\* scan tolerance is configured.
C11_LateAfterTenMinutes ==
    [][(response'.op = "scan" /\ response'.code = 200) =>
        \E r \in attendance_records' \ attendance_records :
            /\ attendance_records' = attendance_records \cup {r}
            /\ r.student = response'.student
            /\ r.subject = response'.subject
            /\ r.date = Date(now')
            /\ r.status =
                 IF MinutesOfDay(Tod(now'))
                       - MinutesOfDay(Subjects[r.subject].start_time) > 10
                 THEN "LATE" ELSE "PRESENT"]_vars

\* With a tolerance of 30 minutes, a scan at start + 11 minutes was just
\* recorded LATE beside a record of the same day that is PRESENT.
C11_Witness ==
    /\ get_settings(school_settings).scan_tolerance_minutes = 30
    /\ response.op = "scan" /\ response.code = 200
    /\ Tod(now) = HM(8, 11)
    /\ \E r \in attendance_records :
          /\ r.student = response.student /\ r.subject = response.subject
          /\ r.date = Date(now) /\ r.status = "LATE"
    /\ \E r \in attendance_records : r.status = "PRESENT" /\ r.date = Date(now)

\* --------------------------------------------------------- validation order

\* The token is authentic and at most 300 seconds old.
TokenValid(tok, t) ==
    /\ tok.signature = Signature(tok.value, tok.timestamp)
    /\ t - (tok.timestamp * 2) <= 300 * 2

\* The first check, in the stated order, that a scan fails in the current
\* state; "Recorded" when it fails none.
FirstFailure(tok, subject_id, t) ==
    LET student == StudentByUuid(tok.value)
    IN CASE ~TokenValid(tok, t) -> "InvalidToken"
         [] OTHER ->
       CASE student = None -> "UnknownStudent"
         [] OTHER ->
       CASE subject_id \notin SubjectIds -> "UnknownSubject"
         [] OTHER ->
       CASE student \notin Subjects[subject_id].students -> "NotEnrolled"
         [] OTHER ->
       CASE ~is_within_time_window(Subjects[subject_id], t,
                get_settings(school_settings).scan_tolerance_minutes).ok
                -> "OutsideWindow"
         [] OTHER ->
       CASE KeyRows(attendance_records, student, subject_id, Date(t)) # {}
                -> "DuplicateRecord"
         [] OTHER -> "Recorded"

\* The outcome an answer of verify_scan stands for
OutcomeOf(reply) ==
    CASE reply.kind = "StudentNotFound" -> "UnknownStudent"
      [] reply.kind = "SubjectNotFound" -> "UnknownSubject"
      [] reply.kind \in {"NotScheduled", "OutsideClassTime"} -> "OutsideWindow"
      [] reply.kind = "AlreadyMarked" -> "DuplicateRecord"
      [] OTHER -> reply.kind

\* C12: a subject scan that carries a token is answered with the first
\* check it fails in the order token valid, student exists, subject exists,
\* student enrolled, time within window, no record yet today; a tampered and
\* an expired token get the same outcome; every failure leaves the
\* attendance records and the notifications as they were.
C12_FirstFailingCheck ==
    [][response'.op = "scan" =>
        \A subject_id \in SubjectIds \cup {"subj9"} :
            \A tok \in TokenInputs(now') \ {NoToken} :
                ( /\ OutcomeOf(response') # FirstFailure(tok, subject_id, now')
                     \/ ( /\ response'.code # 200
                          /\ \/ attendance_records' # attendance_records
                             \/ parent_notifications' # parent_notifications )
                  /\ VerifyScanSubject(tok, subject_id, now') )
                => FALSE]_vars

\* Tuesday 07:44, a minute before the window of the only subject of that
\* day opens: its one student, already marked for the day by the teacher,
\* scanned and was answered outside the window, not duplicate.
C12_Witness ==
    /\ response.op = "scan" /\ response.kind = "OutsideClassTime"
    /\ Date(now) = 1 /\ Tod(now) = HM(7, 44)
    /\ KeyRows(attendance_records, "s1", "subj2", 1) # {}

\* ------------------------------------------- notifications, subject path

\* C13: a record with method QR always has status PRESENT or LATE; a subject
\* scan creates no notification; a manual marking with status PRESENT or LATE
\* creates none; and whenever the notifications change, the step is a manual
\* marking with status ABSENT.
C13_OnlyAbsentMarkingNotifies ==
    /\ [](\A r \in attendance_records :
             r.scan_method = "QR" => r.status \in {"PRESENT", "LATE"})
    /\ [][/\ response'.op = "scan" => parent_notifications' = parent_notifications
          /\ response'.op = "manual" =>
                \A f \in ManualInputs :
                    ( /\ f.status \in {"PRESENT", "LATE"}
                      /\ parent_notifications' # parent_notifications
                      /\ MarkManual(f.teacher, "POST", f.subject_id, f.student_id,
                                    f.status, now') )
                    => FALSE
          /\ parent_notifications' # parent_notifications =>
                /\ response'.op = "manual"
                /\ \E f \in ManualInputs :
                      /\ f.status = "ABSENT"
                      /\ MarkManual(f.teacher, "POST", f.subject_id, f.student_id,
                                    f.status, now')]_vars

\* A scan recorded one student LATE, a teacher then marked another LATE by
\* hand, and no notification exists.
C13_Witness ==
    /\ response.op = "manual" /\ response.kind = "Marked"
    /\ parent_notifications = <<>>
    /\ \E r \in attendance_records : r.scan_method = "QR" /\ r.status = "LATE"
    /\ \E r \in attendance_records : r.scan_method = "MANUAL" /\ r.status = "LATE"

\* ----------------------------------------------------------- manual marking

Statuses == {"PRESENT", "LATE", "ABSENT"}

\* The forms of a teacher for a subject of their own, a student of the
\* roster and one of the three statuses
ProperForms ==
    {f \in ManualInputs : /\ f.subject_id \in SubjectIds
                          /\ f.student_id \in Students
                          /\ f.teacher = Subjects[f.subject_id].teacher
                          /\ f.status \in Statuses}

C15_ManualReplaces ==
    [][(response'.op = "manual" /\ response'.kind = "Marked") =>
        \A f \in ManualInputs :
            MarkManual(f.teacher, "POST", f.subject_id, f.student_id, f.status, now')
            => LET before == KeyRows(attendance_records, f.student_id,
                                     f.subject_id, Date(now'))
                   after == KeyRows(attendance_records', f.student_id,
                                    f.subject_id, Date(now'))
               IN /\ Cardinality(after) = 1
                  /\ \A r \in after : r.status = f.status /\ r.scan_method = "MANUAL"
                  /\ attendance_records' \ after = attendance_records \ before
                  /\ (\E b \in before : b.status = f.status /\ b.scan_method = "MANUAL")
                        => attendance_records' = attendance_records]_vars

\* After three requests the teacher has marked one key ABSENT twice (two
\* notifications tell): it holds one record, by MANUAL, the first ever
\* created, and no other record exists.
C15_Witness ==
    /\ response.op = "manual" /\ response.kind = "Marked"
    /\ ops = 3
    /\ Len(parent_notifications) = 2
    /\ \E r \in attendance_records :
          /\ attendance_records = {r}
          /\ r.id = 1 /\ r.status = "ABSENT" /\ r.scan_method = "MANUAL"
          /\ r.date = Date(now) /\ Tod(now) = HM(8, 11)

\* ------------------------------------------------ notifications and settings

\* The student's ABSENT records, over all subjects and dates, in a table
AbsencesOf(rows, student) ==
    {r \in rows : r.student = student /\ r.status = "ABSENT"}

\* The step is the accepted ABSENT marking of form f.
AbsentMarking(f) ==
    /\ f.status = "ABSENT"
    /\ response'.kind = "Marked"
    /\ MarkManual(f.teacher, "POST", f.subject_id, f.student_id, f.status, now')

\* The notifications gained exactly one, for the record the marking of f
\* left, with the given prefix.
OneMoreNotification(f, prefix) ==
    \E r \in KeyRows(attendance_records', f.student_id, f.subject_id, Date(now')) :
        parent_notifications' =
            Append(parent_notifications,
                   [student |-> f.student_id, attendance_record |-> r.id,
                    message_prefix |-> prefix, status |-> "SENT"])

\* C16: with automatic SMS off and threshold k, an accepted manual ABSENT
\* marking creates a notification exactly when the student then has k or
\* more ABSENT records (all subjects and dates, the one just marked
\* included), that notification carries the threshold-alert prefix, and
\* otherwise none is created.
C16_ThresholdAlert ==
    [][response'.op = "manual" =>
        \A f \in NotifyForms :
            (AbsentMarking(f) /\ ~get_settings(school_settings).enable_auto_sms)
            => IF Cardinality(AbsencesOf(attendance_records', f.student_id))
                     >= get_settings(school_settings).absence_alert_threshold
               THEN OneMoreNotification(f, "ALERT")
               ELSE parent_notifications' = parent_notifications]_vars

\* Automatic SMS off, threshold 3: after three markings the student has three
\* ABSENT records and there is one notification, the alert for the third.
C16_Witness ==
    /\ ~get_settings(school_settings).enable_auto_sms
    /\ get_settings(school_settings).absence_alert_threshold = 3
    /\ ops = 3
    /\ Cardinality(AbsencesOf(attendance_records, "s1")) = 3
    /\ Len(parent_notifications) = 1
    /\ parent_notifications[1].message_prefix = "ALERT"
    /\ parent_notifications[1].attendance_record = 3

\* C17: with automatic SMS on, every accepted manual ABSENT marking creates
\* exactly one notification, whatever the student's absence count and the
\* threshold, and its message has no threshold-alert prefix.
C17_AutoSmsAlways ==
    [][response'.op = "manual" =>
        \A f \in NotifyForms :
            (AbsentMarking(f) /\ get_settings(school_settings).enable_auto_sms)
            => OneMoreNotification(f, "")]_vars

\* Automatic SMS on, threshold 1: the student has two ABSENT records, above
\* the threshold, and each marking left a notification without prefix.
C17_Witness ==
    /\ get_settings(school_settings).enable_auto_sms
    /\ get_settings(school_settings).absence_alert_threshold = 1
    /\ Cardinality(AbsencesOf(attendance_records, "s1")) = 2
    /\ Len(parent_notifications) = 2
    /\ \A i \in 1 .. 2 : /\ parent_notifications[i].message_prefix = ""
                         /\ parent_notifications[i].student = "s1"

\* C18: every Parent Notification has status SENT; a notification, once
\* created, is never changed or removed; and a notification created by a
\* manual marking belongs to the student of the marking and links to the
\* record of the marked key, which is ABSENT.
C18_NotificationsSentAndFixed ==
    /\ [](\A i \in 1 .. Len(parent_notifications) :
             parent_notifications[i].status = "SENT")
    /\ [][/\ Len(parent_notifications') >= Len(parent_notifications)
          /\ \A i \in 1 .. Len(parent_notifications) :
                parent_notifications'[i] = parent_notifications[i]
          /\ Len(parent_notifications') > Len(parent_notifications) =>
                /\ Len(parent_notifications') = Len(parent_notifications) + 1
                /\ \A f \in NotifyForms :
                      MarkManual(f.teacher, "POST", f.subject_id, f.student_id,
                                 f.status, now')
                      => \E r \in KeyRows(attendance_records', f.student_id,
                                          f.subject_id, Date(now')) :
                            LET n == parent_notifications'[Len(parent_notifications')]
                            IN /\ n.attendance_record = r.id
                               /\ n.student = r.student
                               /\ r.status = "ABSENT"]_vars

\* Two notifications for two records of two students; the record of the
\* first has since been marked PRESENT and its notification is still there.
C18_Witness ==
    /\ Len(parent_notifications) = 2
    /\ parent_notifications[1].student # parent_notifications[2].student
    /\ parent_notifications[1].attendance_record = 1
    /\ parent_notifications[2].attendance_record = 2
    /\ \E r \in attendance_records : r.id = 1 /\ r.status = "PRESENT"

\* ------------------------------------------------------------- statistics

\* The records that match the filters of the call
Matching ==
    {r \in attendance_records :
        /\ r.student = call.student
        /\ call.subject = None \/ r.subject = call.subject
        /\ call.date_from = NoDate \/ r.date >= call.date_from
        /\ call.date_to = NoDate \/ r.date <= call.date_to}

WithStatus(status) == {r \in Matching : r.status = status}

\* The counts are those of the matching records, all 0 (and the percentage
\* 0) when none matches, and the percentage lies between 0 and 100.
CountsAndRange ==
    /\ call.result.total = Cardinality(Matching)
    /\ call.result.present = Cardinality(WithStatus("PRESENT"))
    /\ call.result.late = Cardinality(WithStatus("LATE"))
    /\ call.result.absent = Cardinality(WithStatus("ABSENT"))
    /\ Matching = {} => call.result.percentage = 0
    /\ 0 <= call.result.percentage /\ call.result.percentage <= 100 * 100

\* The percentage is exactly (present + late) / total * 100.
PercentageExact ==
    Matching # {} =>
        call.result.percentage * call.result.total
            = (call.result.present + call.result.late) * 100 * 100

\* The percentage is at most half a hundredth away from
\* (present + late) / total * 100.
PercentageRounded ==
    Matching # {} =>
        LET exact == (call.result.present + call.result.late) * 100 * 100
            got == call.result.percentage * call.result.total
        IN /\ 2 * (got - exact) <= call.result.total
           /\ 2 * (exact - got) <= call.result.total

\* C19, as stated: the percentage returned is (present + late) / total * 100
\* over the matching records, 0 with all counts 0 when none matches, and
\* between 0 and 100; the call changes no record.
C19_PercentageExact ==
    /\ [](call.done => (CountsAndRange /\ PercentageExact))
    /\ [][attendance_records' = attendance_records]_vars

\* C19, amended: the percentage returned is (present + late) / total * 100
\* rounded to two decimals, 0 with all counts 0 when none matches, and
\* between 0 and 100; the call changes no record.
C19_PercentageRounded ==
    /\ [](call.done => (CountsAndRange /\ PercentageRounded))
    /\ [][attendance_records' = attendance_records]_vars

\* Three matching records of which two count as attended: 66.67 is returned.
C19_Witness ==
    /\ call.done
    /\ call.result.total = 3
    /\ call.result.present = 1 /\ call.result.late = 1
    /\ call.result.percentage = 6667

\* ------------------------------------------------ concurrent gate punches

\* The punches that stored a time in the slot of (student, date)
Stored(student, date, slot) ==
    {p \in Procs : /\ requests[p].pc = "done"
                   /\ requests[p].reply.kind = "TypeError"
                   /\ requests[p].student = student
                   /\ Date(requests[p].time) = date
                   /\ requests[p].slot = slot}

\* C20: when gate punches of one student and date interleave their read,
\* test, set and save steps, at most one of them fills a given slot, and no
\* save clears or overwrites a slot time, a status or minutes_late that
\* another has stored.
C20_ConcurrentPunchesKeepSlots ==
    /\ [](\A student \in Students, date \in Days, slot \in Slots :
             Cardinality(Stored(student, date, slot)) <= 1)
    /\ [][\A row \in daily_attendance :
             LET new == DailyOf(daily_attendance', row.student, row.date)
             IN /\ \A slot \in Slots : row[slot] # NoTime => new[slot] = row[slot]
                /\ row.time_in_am # NoTime =>
                      /\ new.status = row.status
                      /\ new.minutes_late = row.minutes_late]_vars

\* ------------------------------------------------- the window near midnight

\* C21: for a schedule with start <= end and a tolerance >= 0, the bounds
\* the window check compares with are never wrapped across midnight: the
\* lower one is not later than the start, the upper one not earlier than
\* the end, and on a scheduled day every time of day from start to end is
\* accepted.
C21_WindowNeverWraps ==
    LET tolerance == EffectiveTolerance(call.tolerance_minutes, school_settings)
        tod == Tod(call.current_time)
        start == call.subject.start_time
        end == call.subject.end_time
    IN (call.done /\ tolerance >= 0 /\ start <= end) =>
          /\ ShiftedTime(start, 0 - tolerance) <= start
          /\ ShiftedTime(end, tolerance) >= end
          /\ ( /\ Weekday(call.current_time) \in call.subject.days_of_week
               /\ start <= tod /\ tod <= end )
             => call.result.ok

\* ------------------------------------------------------- stored values

\* C22: every Subject Attendance Record has a status among PRESENT, LATE and
\* ABSENT and a method among QR and MANUAL, whatever scans and manual
\* markings (also with a missing or an unknown status value) were handled.
C22_StatusAndMethodInDomain ==
    \A r \in attendance_records :
        r.status \in Statuses /\ r.scan_method \in {"QR", "MANUAL"}

\* C23: the School Policy always has an absence alert threshold >= 1 and a
\* scan tolerance >= 0; an update that supplies a threshold below 1 or a
\* negative tolerance is refused and leaves the policy as it was.
C23_PolicyInRange ==
    /\ [](\A row \in school_settings : /\ row.absence_alert_threshold >= 1
                                       /\ row.scan_tolerance_minutes >= 0)
    /\ [][response'.op = "settings" =>
            \A threshold \in ThresholdInputs, auto \in BOOLEAN,
               tolerance \in ToleranceInputs :
                ( /\ threshold.numeric /\ tolerance.numeric
                  /\ threshold.value < 1 \/ tolerance.value < 0
                  /\ school_settings_view("POST", threshold, auto, tolerance) )
                => /\ response'.kind # "Updated"
                   /\ get_settings(school_settings')
                         = get_settings(school_settings)]_vars

\* --------------------------------------------------- daily records, one each

\* The gate punches of (student, date) that are past get_or_create
PastGetOrCreate(student, date) ==
    {p \in Procs : /\ requests[p].student = student
                   /\ requests[p].time # NoTime
                   /\ Date(requests[p].time) = date
                   /\ requests[p].pc \in {"read", "done"}}

\* C24: there is at most one Daily Gate Attendance record per (student,
\* date), also when the lookups and creates of the first punches of the day
\* interleave, and a record exists only for a (student, date) of which a
\* gate punch has got past its get_or_create.
C24_OneDailyRecord ==
    \A student \in Students, date \in Days :
        /\ Cardinality(DailyRows(daily_attendance, student, date)) <= 1
        /\ DailyRows(daily_attendance, student, date) # {}
              => PastGetOrCreate(student, date) # {}

\* Two first punches of one student and day both missed the row at their
\* lookup; one has inserted it, the other is about to run its insert.
C24_Witness ==
    \E p, q \in Procs :
        /\ requests[p].pc = "read" /\ requests[q].pc = "create"
        /\ requests[p].student = requests[q].student
        /\ Date(requests[p].time) = Date(requests[q].time)
        /\ requests[p].attendance \in daily_attendance
        /\ Cardinality(DailyRows(daily_attendance, requests[q].student,
                                 Date(requests[q].time))) = 1

\* --------------------------------------------------------- the evaluators

\* A repeated call returns what the call before returned.
SameResults ==
    /\ (call.done /\ call'.last = "is_within_time_window") => call'.result = call.result
    /\ (call.verified /\ call'.last = "verify_qr_data")
          => call'.actual_uuid = call.actual_uuid

\* C25, as stated: a call of verify or of the window check changes no
\* persisted state (no attendance record, notification or policy row is
\* created or changed, also when no policy row exists yet) and returns the
\* same result for the same inputs and policy.
C25_EvaluatorsPure ==
    [][/\ attendance_records' = attendance_records
       /\ daily_attendance' = daily_attendance
       /\ parent_notifications' = parent_notifications
       /\ school_settings' = school_settings
       /\ SameResults]_vars

\* C25, amended: a call of verify changes no persisted state; a call of the
\* window check changes no attendance record and no notification, and its
\* only write is to create the policy row, with the default values, when
\* none exists; both return the same result for the same inputs and policy.
C25_EvaluatorsWriteOnlyDefaultPolicy ==
    [][/\ attendance_records' = attendance_records
       /\ daily_attendance' = daily_attendance
       /\ parent_notifications' = parent_notifications
       /\ school_settings' =
             IF call'.last = "is_within_time_window" /\ Cardinality(school_settings) = 0
             THEN {DefaultSettings}
             ELSE school_settings
       /\ SameResults]_vars

\* The window check, called without a tolerance where no policy row existed,
\* has created the default row; it and verify have been called three times
\* in all, the window check last.
C25_Witness ==
    /\ ops = 3
    /\ call.done /\ call.verified /\ call.last = "is_within_time_window"
    /\ call.tolerance_minutes = NoTolerance
    /\ school_settings = {DefaultSettings}

\* -------------------------------------------------------------- the frame

\* Some record of (student, date), for a subject or at the gate, differs
\* between the two states of the step.
TouchedKey(student, date) ==
    \/ {r \in attendance_records : r.student = student /\ r.date = date}
          # {r \in attendance_records' : r.student = student /\ r.date = date}
    \/ DailyRows(daily_attendance, student, date)
          # DailyRows(daily_attendance', student, date)

\* The step is a subject scan, a manual marking or a gate punch for the student.
RequestFor(student) ==
    \/ /\ response'.op = "scan"
       /\ \E subject_id \in SubjectIds :
             VerifyScanSubject(sign(UuidOf(student), now'), subject_id, now')
    \/ /\ response'.op = "manual"
       /\ \E f \in FrameForms :
             /\ f.student_id = student
             /\ MarkManual(f.teacher, "POST", f.subject_id, f.student_id, f.status, now')
    \/ /\ response'.op = "gate"
       /\ VerifyScanGate(sign(UuidOf(student), now'), now')

\* C26: a subject scan, manual marking or gate punch changes records only of
\* its own student on the date of the request; a gate punch changes no
\* subject attendance record and a subject scan no daily gate record.
C26_OtherKeysUntouched ==
    [][/\ \A student \in Students, date \in Days :
             TouchedKey(student, date)
                => date = Date(now') /\ RequestFor(student)
       /\ response'.op = "gate" => attendance_records' = attendance_records
       /\ response'.op = "scan" => daily_attendance' = daily_attendance]_vars

\* s1 has a subject record on each of the two dates and s2 a gate record on
\* the later one.
C26_Witness ==
    /\ \E r \in attendance_records : r.student = "s1" /\ r.date = 1
    /\ \E r \in daily_attendance : r.student = "s2" /\ r.date = 1
    /\ \E r \in attendance_records : r.student = "s1" /\ r.date = 0

\* ------------------------------------------- the answer of a gate punch

\* C27: a gate punch is answered with success exactly when its time was
\* stored in a slot: a stored punch is never answered with a failure, and
\* a failure leaves the daily gate records unchanged.
C27_SuccessIffStored ==
    [][response'.op = "gate" /\ ops' = ops + 1
          => (response'.code = 200 <=> daily_attendance' # daily_attendance)]_vars

\* ------------------------------------------------ the order of the slots

\* C28: in every daily gate record the filled slots lie in their bands:
\* time_in_am < 12:00 <= time_out_am < 13:00 <= time_in_pm < 16:00 <=
\* time_out_pm, for whichever of the four are set.
C28_SlotsInBands ==
    \A row \in daily_attendance :
        /\ row.time_in_am # NoTime => row.time_in_am < HM(12, 0)
        /\ row.time_out_am # NoTime
              => HM(12, 0) <= row.time_out_am /\ row.time_out_am < HM(13, 0)
        /\ row.time_in_pm # NoTime
              => HM(13, 0) <= row.time_in_pm /\ row.time_in_pm < HM(16, 0)
        /\ row.time_out_pm # NoTime => HM(16, 0) <= row.time_out_pm

\* A day with the last morning instant as time-in, 12:00 sharp as morning
\* time-out, 16:00 sharp as afternoon time-out and no afternoon time-in.
C28_Witness ==
    \E row \in daily_attendance :
        /\ row.time_in_am = HM(12, 0) - 1
        /\ row.time_out_am = HM(12, 0)
        /\ row.time_in_pm = NoTime
        /\ row.time_out_pm = HM(16, 0)

\* ---------------------------------------------------------- notifications

\* C29: every subject attendance record has at most one parent notification
\* linked to it; marking the same key ABSENT again creates no second one.
C29_OneNotificationPerRecord ==
    \A i, j \in 1 .. Len(parent_notifications) :
        ( /\ parent_notifications[i].attendance_record # NoRecord
          /\ parent_notifications[i].attendance_record
                = parent_notifications[j].attendance_record )
        => i = j

\* ------------------------------------------------------------ registration

\* C30: registration by a teacher creates both the user account and the
\* student profile or neither: no student account is ever without a
\* profile, and an LRN is reported as already existing only when a profile
\* holds it.
C30_RegistrationAllOrNothing ==
    /\ [](\A u \in users :
             u.role = "STUDENT" => \E q \in student_profiles : q.user = u.username)
    /\ [][/\ users' # users <=> student_profiles' # student_profiles
          /\ (response'.op = "register" /\ response'.kind = "AlreadyExists"
              /\ ops' = ops + 1)
                => \E q \in student_profiles : q.student_id = response'.student]_vars

====
